---- MODULE Spec2Model ----
(***************************************************************************)
(* Model of package requests (src/request.go).  The file holds two copies  *)
(* of the request engine: the current one (lines 1-253: option-passing     *)
(* helpers, Patch, multipart files, success range 200..226) and an older   *)
(* one (lines 255-422: explicit arguments, no Patch, no files, success     *)
(* only for 200).  Both are modelled; impl says which copy a call runs.    *)
(*                                                                         *)
(* Texts that the code inspects byte by byte (URLs, header names, query    *)
(* strings, credentials, bodies) are sequences of byte values; header      *)
(* values and messages are strings.                                        *)
(*                                                                         *)
(* Left out: Timeout and DisableKeepAlives, which request only hands to    *)
(* the transport; a Body(...) option given by the caller; and the          *)
(* `rsp == nil` branch of request, since client.Do never returns a nil     *)
(* response with a nil error.  The transport is an oracle: a round trip    *)
(* ends with an error or with a response of some status.  CreateFormFile,  *)
(* io.Copy and Close are oracles too: each succeeds or returns an error.   *)
(***************************************************************************)
EXTENDS Integers, Sequences, FiniteSets, TLC

\* ------------------------------------------------------------- bounds
\* Largest number of entries of a Files mapping.
MaxFiles == 2

\* ---------------------------------------------------------- constants
StatusOK == 200
StatusIMUsed == 226

\* ------------------------------------------------------- map helpers
\* A Go map[K]V is a function; the empty map has the empty domain.
EmptyMap == [k \in {} |-> 0]

MapSet(m, k, v) == [x \in (DOMAIN m) \cup {k} |-> IF x = k THEN v ELSE m[x]]

\* All orders in which `range` may visit the keys of a map.
Orders(S) == {o \in [1..Cardinality(S) -> S] : \A i, j \in DOMAIN o : i # j => o[i] # o[j]}

\* --------------------------------------------------------- byte texts
Upper(c) == IF c >= 97 /\ c <= 122 THEN c - 32 ELSE c
Lower(c) == IF c >= 65 /\ c <= 90 THEN c + 32 ELSE c
IsAlnum(c) == (c >= 48 /\ c <= 57) \/ (c >= 65 /\ c <= 90) \/ (c >= 97 /\ c <= 122)

\* strings.Contains(s, "?") for a one-byte needle.
Contains(s, c) == \E i \in 1..Len(s) : s[i] = c

\* net/textproto: a header name made of token bytes is canonicalised (first
\* letter and every letter after '-' upper case, the rest lower case); a name
\* with any other byte is left as written.
IsTokenByte(c) == IsAlnum(c) \/ c \in {33, 35, 36, 37, 38, 39, 42, 43, 45, 46, 94, 95, 96, 124, 126}

CanonicalMIMEHeaderKey(s) ==
    IF \E i \in 1..Len(s) : ~IsTokenByte(s[i]) THEN s
    ELSE [i \in 1..Len(s) |-> IF i = 1 \/ s[i - 1] = 45 THEN Upper(s[i]) ELSE Lower(s[i])]

\* http.Header.Set: replaces the value stored under the canonical name.
HeaderSet(h, k, v) == MapSet(h, CanonicalMIMEHeaderKey(k), v)

\* `for k, v := range headers { req.Header.Set(k, v) }` in visiting order o.
RECURSIVE FillHeaders(_, _, _)
FillHeaders(h, m, o) ==
    IF Len(o) = 0 THEN h
    ELSE FillHeaders(HeaderSet(h, o[1], m[o[1]]), m, Tail(o))

\* encoding/base64.StdEncoding.EncodeToString.
B64 == <<"A","B","C","D","E","F","G","H","I","J","K","L","M","N","O","P","Q","R","S","T","U","V","W","X","Y","Z","a","b","c","d","e","f","g","h","i","j","k","l","m","n","o","p","q","r","s","t","u","v","w","x","y","z","0","1","2","3","4","5","6","7","8","9","+","/">>

B64At(n, shift) == B64[((n \div shift) % 64) + 1]

RECURSIVE Base64(_)
Base64(bs) ==
    IF Len(bs) = 0 THEN ""
    ELSE IF Len(bs) = 1 THEN
        LET n == bs[1] * 65536
        IN  B64At(n, 262144) \o B64At(n, 4096) \o "=="
    ELSE IF Len(bs) = 2 THEN
        LET n == bs[1] * 65536 + bs[2] * 256
        IN  B64At(n, 262144) \o B64At(n, 4096) \o B64At(n, 64) \o "="
    ELSE
        LET n == bs[1] * 65536 + bs[2] * 256 + bs[3]
        IN  B64At(n, 262144) \o B64At(n, 4096) \o B64At(n, 64) \o B64At(n, 1)
            \o Base64(SubSeq(bs, 4, Len(bs)))

\* http.Request.SetBasicAuth: Authorization: Basic base64(username ":" password).
AuthorizationKey == <<65,117,116,104,111,114,105,122,97,116,105,111,110>>

SetBasicAuth(h, username, password) ==
    HeaderSet(h, AuthorizationKey, "Basic " \o Base64(username \o <<58>> \o password))

\* net/url.QueryEscape: unreserved bytes stay, a space becomes '+', any other
\* byte becomes %XX in upper-case hexadecimal.
HexDigit(n) == IF n < 10 THEN 48 + n ELSE 55 + n

RECURSIVE QueryEscape(_)
QueryEscape(s) ==
    IF Len(s) = 0 THEN <<>>
    ELSE LET c == s[1]
             e == IF IsAlnum(c) \/ c \in {45, 46, 95, 126} THEN <<c>>
                  ELSE IF c = 32 THEN <<43>>
                  ELSE <<37, HexDigit(c \div 16), HexDigit(c % 16)>>
         IN  e \o QueryEscape(Tail(s))

\* Byte-wise order of two texts (sort.Strings).
RECURSIVE LexLess(_, _)
LexLess(a, b) ==
    IF Len(b) = 0 THEN FALSE
    ELSE IF Len(a) = 0 THEN TRUE
    ELSE IF a[1] # b[1] THEN a[1] < b[1]
    ELSE LexLess(Tail(a), Tail(b))

\* url.Values{}.Add(k, v) for every entry of m, then Encode(): keys sorted,
\* "k=v" pairs escaped and joined with '&'.  The result does not depend on
\* the order in which the map was visited.
RECURSIVE Encode(_)
Encode(m) ==
    IF DOMAIN m = {} THEN <<>>
    ELSE LET k == CHOOSE x \in DOMAIN m : \A y \in DOMAIN m : y = x \/ LexLess(x, y)
             rest == [x \in (DOMAIN m) \ {k} |-> m[x]]
             pair == QueryEscape(k) \o <<61>> \o QueryEscape(m[k])
         IN  IF DOMAIN rest = {} THEN pair ELSE pair \o <<38>> \o Encode(rest)

\* Decimal digits of a natural number.
RECURSIVE Digits(_)
Digits(n) == IF n < 10 THEN <<48 + n>> ELSE Digits(n \div 10) \o <<48 + (n % 10)>>

\* url.Parse as used by http.NewRequest rejects a URL holding an ASCII control
\* byte; the URLs of this model fail in no other way.
HasCTLByte(s) == \E i \in 1..Len(s) : s[i] < 32 \/ s[i] = 127

\* ----------------------------------------------------------- values
Nil == [kind |-> "nil"]
Unset == [set |-> FALSE]
Given(v) == [set |-> TRUE, v |-> v]

\* Opaque payload values (interface{}): an integer, or a channel, which
\* encoding/json cannot marshal.
IntVal(n) == [t |-> "int", n |-> n]
ChanVal == [t |-> "chan"]

ContentTypeKey == <<67,111,110,116,101,110,116,45,84,121,112,101>>
LowerContentTypeKey == <<99,111,110,116,101,110,116,45,116,121,112,101>>
LowerAuthorizationKey == <<97,117,116,104,111,114,105,122,97,116,105,111,110>>

FormContentType == "application/x-www-form-urlencoded"
JSONContentType == "application/json"

\* multipart.Writer.FormDataContentType for a writer with boundary b.
FormDataContentType(b) == "multipart/form-data; boundary=" \o b

\* ------------------------------------------------------------ inputs
Procs == {1, 2}

\* "http://h/p", "http://h/p?x=1", and a URL with a line feed in it.
PlainURL == <<104,116,116,112,58,47,47,104,47,112>>
QueryURL == <<104,116,116,112,58,47,47,104,47,112,63,120,61,49>>
BadURL == <<104,116,116,112,58,47,47,104,47,10>>
URLChoices == {PlainURL, QueryURL, BadURL}

\* No params, or {"b": "x y", "a": "1"}.
SomeParams == [k \in {<<98>>, <<97>>} |-> IF k = <<98>> THEN <<120,32,121>> ELSE <<49>>]
ParamChoices == {EmptyMap, SomeParams}

\* Contents of the map a caller hands to Headers(...).
HeaderChoices ==
    { EmptyMap,
      [k \in {LowerContentTypeKey} |-> "text/plain"],
      [k \in {ContentTypeKey, LowerAuthorizationKey} |->
          IF k = ContentTypeKey THEN "text/plain" ELSE "Bearer t"] }

NoAuth == [authType |-> "none"]
BasicAuth(u, pw) == [authType |-> "HTTPBasicAuth", username |-> u, password |-> pw]
\* basic("alice", "secret")
AliceAuth == BasicAuth(<<97,108,105,99,101>>, <<115,101,99,114,101,116>>)
\* basic("a", "b")
ShortAuth == BasicAuth(<<97>>, <<98>>)
AuthChoices == {NoAuth, AliceAuth, ShortAuth}

DataChoices == {Unset, Given(IntVal(42))}
\* {"k": "v w"}
FormChoices == {Unset, Given([k \in {<<107>>} |-> <<118,32,119>>])}
JSONChoices == {Unset, Given(IntVal(7)), Given(ChanVal)}

\* Field "f<i>" maps to a file named "n<i>" whose content is the byte i.
FieldName(i) == <<102, 48 + i>>
FileOf(k) == [name |-> <<110, k[2]>>, content |-> <<k[2] - 48>>]
FilesMap(n) == [k \in {FieldName(i) : i \in 1..n} |-> FileOf(k)]
FilesChoices == {Unset} \cup {Given(FilesMap(n)) : n \in 0..MaxFiles}

\* Boundaries multipart.NewWriter may draw.
Boundaries == {"b1", "b2"}

Inputs ==
    [ url : URLChoices, params : ParamChoices, hdr : {"none", "caller"},
      auth : AuthChoices, data : DataChoices, form : FormChoices,
      json : JSONChoices, files : FilesChoices ]

\* Status codes a round trip may end with.
Statuses == {199, 200, 201, 226, 227, 404}

Impls == {"current", "old"}

\* http.MethodGet, http.MethodPost, ...
Method(verb) ==
    CASE verb = "Get" -> "GET" [] verb = "Post" -> "POST" [] verb = "Put" -> "PUT"
      [] verb = "Patch" -> "PATCH" [] verb = "Delete" -> "DELETE"

\* ------------------------------------------------------------- state
\* call[p]: the verb call process p is running (or last ran).
\* callerMap: the contents of the caller-owned map given to Headers(...).
VARIABLES call, callerMap

vars == <<call, callerMap>>

Idle ==
    [ pc |-> "idle", impl |-> "current", verb |-> "Get", in |-> Nil,
      localMap |-> EmptyMap, snap |-> EmptyMap, body |-> Nil, mpw |-> Nil,
      via |-> "none", encoders |-> <<>>, req |-> Nil, submitted |-> 0,
      raw |-> Nil, rsp |-> Nil, err |-> Nil ]

Init ==
    /\ call = [p \in Procs |-> Idle]
    /\ callerMap = EmptyMap

\* ------------------------------------------------------ Option Set
\* parseOptions(setters...): a fresh Options value with the setters applied in
\* order.  Headers(m) stores the caller's map itself (no copy), so the Option
\* Set's Headers refers either to the caller's map or, with no Headers option,
\* to a map owned by the call.  Body is what a helper appended with Body(...).
ParseOptions(c) ==
    [ Headers |-> IF c.in.hdr = "caller" THEN "caller" ELSE "local",
      Params |-> c.in.params, Auth |-> c.in.auth, Data |-> c.in.data,
      Form |-> c.in.form, JSON |-> c.in.json, Files |-> c.in.files,
      Body |-> c.body ]

\* The contents of the map that opts.Headers of call c refers to.
HeadersOf(c, cm) == IF ParseOptions(c).Headers = "caller" THEN cm ELSE c.localMap

\* ------------------------------------------------------ verb facades
\* Get choosing an encoder as Post does.
SelectGetLikePost(o) ==
    IF o.Data.set THEN "requestData"
    ELSE IF o.Form.set THEN "requestForm"
    ELSE IF o.JSON.set THEN "requestJSON"
    ELSE IF o.Files.set THEN "requestFiles"
    ELSE "request"

\* Each operator gives the function the verb hands the call to.
SelectGet(o) == "request"

SelectPost(o) ==
    IF o.Data.set THEN "requestData"
    ELSE IF o.Form.set THEN "requestForm"
    ELSE IF o.JSON.set THEN "requestJSON"
    ELSE IF o.Files.set THEN "requestFiles"
    ELSE "request"

SelectPut(o) ==
    IF o.Data.set THEN "requestData"
    ELSE IF o.Form.set THEN "requestForm"
    ELSE IF o.JSON.set THEN "requestJSON"
    ELSE "request"

SelectPatch(o) ==
    IF o.Data.set THEN "requestData"
    ELSE IF o.Form.set THEN "requestForm"
    ELSE IF o.JSON.set THEN "requestJSON"
    ELSE "request"

SelectDelete(o) ==
    IF o.Data.set THEN "requestData"
    ELSE IF o.Form.set THEN "requestForm"
    ELSE IF o.JSON.set THEN "requestJSON"
    ELSE "request"

\* The older copy: Post and Put know data, form and json; Get and Delete go
\* straight to request; there is no Patch.
SelectGetOld(o) == "request"

SelectPostOld(o) ==
    IF o.Data.set THEN "requestData"
    ELSE IF o.Form.set THEN "requestForm"
    ELSE IF o.JSON.set THEN "requestJSON"
    ELSE "request"

SelectPutOld(o) ==
    IF o.Data.set THEN "requestData"
    ELSE IF o.Form.set THEN "requestForm"
    ELSE IF o.JSON.set THEN "requestJSON"
    ELSE "request"

SelectDeleteOld(o) == "request"

Select(impl, verb, o) ==
    CASE impl = "current" /\ verb = "Get" -> SelectGet(o)
      [] impl = "current" /\ verb = "Post" -> SelectPost(o)
      [] impl = "current" /\ verb = "Put" -> SelectPut(o)
      [] impl = "current" /\ verb = "Patch" -> SelectPatch(o)
      [] impl = "current" /\ verb = "Delete" -> SelectDelete(o)
      [] impl = "old" /\ verb = "Get" -> SelectGetOld(o)
      [] impl = "old" /\ verb = "Post" -> SelectPostOld(o)
      [] impl = "old" /\ verb = "Put" -> SelectPutOld(o)
      [] impl = "old" /\ verb = "Delete" -> SelectDeleteOld(o)

\* Inputs of a run in which concurrent calls share one caller-owned headers
\* map: a plain URL, no params, no auth, and a form, a JSON value or nothing
\* as payload.
SharedInputs ==
    { i \in Inputs :
        /\ i.url = PlainURL /\ i.params = EmptyMap /\ i.auth = NoAuth
        /\ i.hdr = "caller"
        /\ i.data = Unset /\ i.files = Unset
        /\ ~(i.form.set /\ i.json.set)
        /\ i.json \in {Unset, Given(IntVal(7))} }

\* The older copy has no files payload.
InputsOf(impl, shared) ==
    IF shared THEN SharedInputs
    ELSE IF impl = "old" THEN {i \in Inputs : i.files = Unset}
    ELSE Inputs

\* The copies of the code a run exercises.
ImplsOf(shared) == IF shared THEN {"current"} ELSE Impls

\* Process p calls a verb.  With shared = FALSE the caller builds the map for
\* Headers(...) for this call alone; with shared = TRUE every call is given
\* the one long-lived map callerMap.
Invoke(p, impl, verb, shared) ==
    \E in \in InputsOf(impl, shared) :
    \E cm \in IF shared THEN {callerMap}
              ELSE IF in.hdr = "caller" THEN HeaderChoices ELSE {EmptyMap} :
       LET c0 == [Idle EXCEPT !.impl = impl, !.verb = verb, !.in = in]
           c1 == [c0 EXCEPT !.pc = Select(impl, verb, ParseOptions(c0)),
                            !.snap = HeadersOf(c0, cm)]
       IN  /\ call' = [call EXCEPT ![p] = c1]
           /\ callerMap' = cm

Get(p, shared) ==
    /\ call[p].pc = "idle"
    /\ \E impl \in ImplsOf(shared) : Invoke(p, impl, "Get", shared)

Post(p, shared) ==
    /\ call[p].pc = "idle"
    /\ \E impl \in ImplsOf(shared) : Invoke(p, impl, "Post", shared)

Put(p, shared) ==
    /\ call[p].pc = "idle"
    /\ \E impl \in ImplsOf(shared) : Invoke(p, impl, "Put", shared)

Patch(p, shared) ==
    /\ call[p].pc = "idle"
    /\ Invoke(p, "current", "Patch", shared)
Delete(p, shared) ==
    /\ call[p].pc = "idle"
    /\ \E impl \in ImplsOf(shared) : Invoke(p, impl, "Delete", shared)


\* ----------------------------------------------------------- returns
Error(kind, msg) == [kind |-> kind, msg |-> msg]

\* The (response, error) pair a helper hands back for what request returned.
\* The current helpers pass both on; the older requestData, requestForm and
\* requestJSON drop the response whenever the error is non-nil.
HelperReturn(impl, via, rsp, err) ==
    IF impl = "old" /\ via \in {"requestData", "requestForm", "requestJSON"}
       /\ err.kind # "nil"
    THEN <<Nil, err>>
    ELSE <<rsp, err>>

\* Call c returns (rsp, err), as request produced them, to the caller.
Finish(c, rsp, err) ==
    LET r == HelperReturn(c.impl, c.via, rsp, err)
    IN  [c EXCEPT !.pc = "done", !.rsp = r[1], !.err = r[2]]

\* opts.Headers["Content-Type"] = ct: a write to the map the Option Set
\* refers to, which is the caller's own map when Headers(...) was given.
WriteContentType(p, c, ct) ==
    IF ParseOptions(c).Headers = "caller"
    THEN /\ callerMap' = MapSet(callerMap, ContentTypeKey, ct)
         /\ call' = [call EXCEPT ![p] = c]
    ELSE /\ callerMap' = callerMap
         /\ call' = [call EXCEPT ![p] =
                        [c EXCEPT !.localMap = MapSet(c.localMap, ContentTypeKey, ct)]]

\* A helper of the current copy runs parseOptions again: the Option Set it
\* works on is assembled at that point.
Assembled(c) ==
    IF c.impl = "current" THEN [c EXCEPT !.snap = HeadersOf(c, callerMap)] ELSE c

\* ---------------------------------------------------------- encoders
\* fmt.Sprintf("%v", v)
Sprint(v) == Digits(v.n)

\* json.Marshal(v): fails for a value of an unsupported type.
Marshal(v) ==
    IF v.t = "chan" THEN [ok |-> FALSE, bytes |-> <<>>]
    ELSE [ok |-> TRUE, bytes |-> Digits(v.n)]

Reader(bytes) == [kind |-> "reader", bytes |-> bytes]

RequestData(p) ==
    /\ call[p].pc = "requestData"
    /\ LET c == Assembled(call[p])
           o == ParseOptions(c)
       IN  call' = [call EXCEPT ![p] =
                [c EXCEPT !.pc = "request", !.via = "requestData",
                          !.encoders = Append(c.encoders, "data"),
                          !.body = IF o.Data.set THEN Reader(Sprint(o.Data.v)) ELSE Nil]]
    /\ UNCHANGED callerMap

RequestForm(p) ==
    /\ call[p].pc = "requestForm"
    /\ LET c == Assembled(call[p])
           o == ParseOptions(c)
       IN  WriteContentType(p,
                [c EXCEPT !.pc = "request", !.via = "requestForm",
                          !.encoders = Append(c.encoders, "form"),
                          !.body = IF o.Form.set THEN Reader(Encode(o.Form.v)) ELSE Nil],
                FormContentType)

RequestJSON(p) ==
    /\ call[p].pc = "requestJSON"
    /\ LET c == [Assembled(call[p]) EXCEPT !.via = "requestJSON",
                     !.encoders = Append(call[p].encoders, "json")]
           o == ParseOptions(c)
           m == IF o.JSON.set THEN Marshal(o.JSON.v) ELSE [ok |-> TRUE, bytes |-> <<>>]
       IN  IF ~m.ok
           THEN /\ call' = [call EXCEPT ![p] =
                        Finish(c, Nil, Error("encoding", "json: unsupported type"))]
                /\ UNCHANGED callerMap
           ELSE WriteContentType(p,
                    [c EXCEPT !.pc = "request",
                              !.body = IF o.JSON.set THEN Reader(m.bytes) ELSE Nil],
                    JSONContentType)

\* requestFiles up to its loop: parseOptions and multipart.NewWriter(&body),
\* which draws the boundary.
RequestFiles(p) ==
    /\ call[p].pc = "requestFiles"
    /\ \E b \in Boundaries :
       LET c == Assembled(call[p])
           o == ParseOptions(c)
       IN  call' = [call EXCEPT ![p] =
                [c EXCEPT !.pc = "parts", !.via = "requestFiles",
                          !.encoders = Append(c.encoders, "files"),
                          !.mpw = [kind |-> "writer", boundary |-> b, parts |-> <<>>,
                                   closed |-> FALSE,
                                   todo |-> IF o.Files.set THEN DOMAIN o.Files.v ELSE {}]]]
    /\ UNCHANGED callerMap

\* The loop of requestFiles going on after a failed io.Copy.
PartStepIgnoringCopyError(c, f, out) ==
    LET fh == ParseOptions(c).Files.v[f]
        part(done) == [field |-> f, filename |-> fh.name,
                       content |-> IF done THEN fh.content ELSE <<>>, complete |-> done]
    IN  CASE out = "createErr" ->
               Finish(c, Nil, Error("encoding", "multipart: create part"))
          [] out \in {"ok", "copyErr"} ->
               [c EXCEPT !.mpw.parts = Append(c.mpw.parts, part(out = "ok")),
                         !.mpw.todo = c.mpw.todo \ {f}]

\* What one pass of the loop over opts.Files does to call c for field f when
\* CreateFormFile and io.Copy end as out says: a failure of either returns
\* (nil, err) at once; otherwise the part is complete and the loop goes on.
PartStep(c, f, out) ==
    LET fh == ParseOptions(c).Files.v[f]
        part(done) == [field |-> f, filename |-> fh.name,
                       content |-> IF done THEN fh.content ELSE <<>>, complete |-> done]
    IN  CASE out = "createErr" ->
               Finish(c, Nil, Error("encoding", "multipart: create part"))
          [] out = "copyErr" ->
               Finish([c EXCEPT !.mpw.parts = Append(c.mpw.parts, part(FALSE))],
                      Nil, Error("encoding", "multipart: copy"))
          [] out = "ok" ->
               [c EXCEPT !.mpw.parts = Append(c.mpw.parts, part(TRUE)),
                         !.mpw.todo = c.mpw.todo \ {f}]

\* One pass of `for field, fh := range opts.Files`, in any visiting order.
FilesPart(p) ==
    /\ call[p].pc = "parts"
    /\ \E f \in call[p].mpw.todo : \E out \in {"ok", "createErr", "copyErr"} :
          call' = [call EXCEPT ![p] = PartStep(call[p], f, out)]
    /\ UNCHANGED callerMap

\* The rest of requestFiles once the loop is over, when bodyWriter.Close()
\* ends as out says: Content-Type is written to opts.Headers, then Close
\* writes the terminating boundary, and only then request is called.
CloseStep(c, out) ==
    CASE out = "closeErr" -> Finish(c, Nil, Error("encoding", "multipart: close"))
      [] out = "ok" ->
           [c EXCEPT !.pc = "request", !.mpw.closed = TRUE,
                     !.body = [kind |-> "multipart", boundary |-> c.mpw.boundary,
                               parts |-> c.mpw.parts, closed |-> TRUE]]

FilesClose(p) ==
    /\ call[p].pc = "parts"
    /\ call[p].mpw.todo = {}
    /\ \E out \in {"ok", "closeErr"} :
          WriteContentType(p, CloseStep(call[p], out),
                           FormDataContentType(call[p].mpw.boundary))

\* ----------------------------------------------------------- request
\* request without the check of the raw URL.
ParamsConflictUnchecked(params, rawurl) == FALSE

\* `params != nil && len(params) != 0` and the raw URL holds a '?'.
ParamsConflict(params, rawurl) == DOMAIN params # {} /\ Contains(rawurl, 63)

\* The URL request builds: the raw URL, with "?" and the encoded params
\* appended when there are params.
MergeQuery(params, rawurl) ==
    IF DOMAIN params # {} THEN rawurl \o <<63>> \o Encode(params) ELSE rawurl

\* request applying basic auth before it copies the Headers map.
BuildHeaderAuthFirst(hdrs, o, auth) ==
    FillHeaders(IF auth.authType = "HTTPBasicAuth"
                THEN SetBasicAuth(EmptyMap, auth.username, auth.password)
                ELSE EmptyMap,
                hdrs, o)

\* The header of the outbound request: every entry of the Headers map is Set
\* in visiting order o, and after that basic auth, if any, is applied.
BuildHeader(hdrs, o, auth) ==
    LET h == FillHeaders(EmptyMap, hdrs, o)
    IN  IF auth.authType = "HTTPBasicAuth"
        THEN SetBasicAuth(h, auth.username, auth.password)
        ELSE h

ConfigMessage == "params not nil, so raw url should not contain character '?'"

\* request up to and including the call of client.Do.
Request(p) ==
    /\ call[p].pc = "request"
    /\ LET c == Assembled(call[p])
           o == ParseOptions(c)
           hdrs == HeadersOf(c, callerMap)
           rawurl == MergeQuery(o.Params, c.in.url)
       IN  IF ParamsConflict(o.Params, c.in.url)
           THEN call' = [call EXCEPT ![p] = Finish(c, Nil, Error("config", ConfigMessage))]
           ELSE IF HasCTLByte(rawurl)
           THEN call' = [call EXCEPT ![p] =
                            Finish(c, Nil, Error("url", "invalid control character in URL"))]
           ELSE \E ord \in Orders(DOMAIN hdrs) :
                call' = [call EXCEPT ![p] =
                    [c EXCEPT !.pc = "Do", !.submitted = c.submitted + 1,
                              !.req = [kind |-> "Request", method |-> Method(c.verb),
                                       url |-> rawurl, body |-> o.Body,
                                       header |-> BuildHeader(hdrs, ord, o.Auth)]]]
    /\ UNCHANGED callerMap

\* Status classification: TRUE when the status is reported as an error.
StatusFailure(s) == s < StatusOK \/ s > StatusIMUsed
StatusFailureOld(s) == s # StatusOK

RawResponse(s) ==
    [kind |-> "resp", StatusCode |-> s, Status |-> ToString(s),
     Header |-> "response headers", Body |-> "response body"]

\* The rest of request once client.Do returned: a transport error gives
\* (nil, err); a response is wrapped and classified by its status code.
AfterDo(c, raw) ==
    IF raw.kind = "err"
    THEN Finish([c EXCEPT !.raw = raw], Nil, Error("transport", "transport error"))
    ELSE LET r == [kind |-> "Response", rsp |-> raw]
             failed == IF c.impl = "current" THEN StatusFailure(raw.StatusCode)
                       ELSE StatusFailureOld(raw.StatusCode)
         IN  Finish([c EXCEPT !.raw = raw], r,
                    IF failed THEN Error("status", raw.Status) ELSE Nil)

\* The transport ends the round trip with an error or with a response.
Respond(p) ==
    /\ call[p].pc = "Do"
    /\ \E raw \in {[kind |-> "err"]} \cup {RawResponse(s) : s \in Statuses} :
          call' = [call EXCEPT ![p] = AfterDo(call[p], raw)]
    /\ UNCHANGED callerMap

\* The caller takes the returned pair; the call's own values are dropped, and
\* so is a headers map that was built for that call alone.
Return(p, shared) ==
    /\ call[p].pc = "done"
    /\ call' = [call EXCEPT ![p] = Idle]
    /\ callerMap' = IF shared THEN callerMap ELSE EmptyMap

\* ---------------------------------------------------- specifications
Step(p) ==
    \/ RequestData(p) \/ RequestForm(p) \/ RequestJSON(p)
    \/ RequestFiles(p) \/ FilesPart(p) \/ FilesClose(p)
    \/ Request(p) \/ Respond(p)

\* One call at a time, every input.
Next ==
    \/ Get(1, FALSE) \/ Post(1, FALSE) \/ Put(1, FALSE) \/ Patch(1, FALSE)
    \/ Delete(1, FALSE) \/ Step(1) \/ Return(1, FALSE)

Spec == Init /\ [][Next]_vars

\* Two concurrent calls that are given the same caller-owned headers map.
\* Steps interleave at the granularity of the actions; a write of one call
\* between two steps of the other is the mildest outcome of the unsynchronised
\* map access, which is enough to show the sharing.
InitShared ==
    /\ call = [p \in Procs |-> Idle]
    /\ callerMap \in HeaderChoices

NextShared ==
    \E p \in Procs :
        \/ Get(p, TRUE) \/ Post(p, TRUE) \/ RequestForm(p) \/ RequestJSON(p)
        \/ Request(p) \/ Respond(p) \/ Return(p, TRUE)

SpecShared == InitShared /\ [][NextShared]_vars

\* ------------------------------------------------------------ claims
BodyVerbs == {"Post", "Put", "Patch", "Delete"}

PayloadFields == {"data", "form", "json", "files"}

\* The payload fields the caller set.
SetFields(in) == {f \in PayloadFields : in[f].set}

\* The set field that comes first in the order data > form > json > files.
TopField(in) ==
    IF in.data.set THEN "data" ELSE IF in.form.set THEN "form"
    ELSE IF in.json.set THEN "json" ELSE "files"

\* The facade and the helper it chose have run.
Encoded(c) == c.pc \in {"request", "Do", "done"}

\* C1: a round trip that ends with status s returns the wrapped response
\* with a nil error when 200 <= s <= 226, and otherwise the wrapped response
\* together with an error whose message is the status line.
C1_StatusContract ==
    \A p \in Procs :
        LET c == call[p]
        IN  (c.pc = "done" /\ c.raw.kind = "resp") =>
              /\ c.rsp.kind = "Response"
              /\ c.rsp.rsp = c.raw
              /\ IF c.raw.StatusCode >= 200 /\ c.raw.StatusCode <= 226
                 THEN c.err.kind = "nil"
                 ELSE c.err.kind = "status" /\ c.err.msg = c.raw.Status

\* The copy at lines 22-253 alone meets C1's contract.
CurrentStatusContract ==
    \A p \in Procs :
        LET c == call[p]
        IN  (c.pc = "done" /\ c.raw.kind = "resp" /\ c.impl = "current") =>
              /\ c.rsp.kind = "Response"
              /\ c.rsp.rsp = c.raw
              /\ IF c.raw.StatusCode >= 200 /\ c.raw.StatusCode <= 226
                 THEN c.err.kind = "nil"
                 ELSE c.err.kind = "status" /\ c.err.msg = c.raw.Status

\* The call of process p was given non-empty params and a URL with a '?'.
Conflicting(c) == c.pc # "idle" /\ DOMAIN c.in.params # {} /\ Contains(c.in.url, 63)

\* C2 as stated: with non-empty params and a '?' in the URL, every verb call
\* returns a nil response and the configuration error, for every payload,
\* and submits nothing to the transport.
C2_ConflictIsConfigError ==
    \A p \in Procs :
        LET c == call[p]
        IN  Conflicting(c) =>
              /\ c.submitted = 0 /\ c.pc # "Do" /\ c.req.kind = "nil"
              /\ c.pc = "done" => (c.rsp.kind = "nil" /\ c.err.kind = "config")

\* C2 as amended: with non-empty params and a '?' in the URL, every verb call
\* returns a nil response and a non-nil error and submits nothing to the
\* transport; the error is the configuration error unless the body encoder
\* (JSON marshal, multipart) failed first, and then it is that encoder's error.
C2_ConflictNeverSubmits ==
    \A p \in Procs :
        LET c == call[p]
        IN  Conflicting(c) =>
              /\ c.submitted = 0 /\ c.pc # "Do" /\ c.req.kind = "nil"
              /\ c.pc = "done" =>
                   /\ c.rsp.kind = "nil"
                   /\ \/ c.err.kind = "config" /\ c.err.msg = ConfigMessage
                      \/ /\ c.err.kind = "encoding"
                         /\ c.encoders \in {<<"json">>, <<"files">>}
                         /\ c.body.kind = "nil"

\* A call with a form payload, params and a '?' in the URL ended with the
\* configuration error after its encoder ran.
C2_Witness ==
    \E p \in Procs :
        /\ Conflicting(call[p]) /\ call[p].pc = "done"
        /\ call[p].encoders = <<"form">> /\ call[p].err.kind = "config"

\* C3: with more than one payload field set, Post, Put, Patch and Delete run
\* exactly one encoder, that of the first set field in the order data > form
\* > json > files; Post with form and json set sends the URL-encoded form
\* with Content-Type application/x-www-form-urlencoded.
C3_PriorityOrder ==
    \A p \in Procs :
        LET c == call[p]
        IN  (Encoded(c) /\ c.verb \in BodyVerbs /\ Cardinality(SetFields(c.in)) >= 2) =>
              /\ c.encoders = <<TopField(c.in)>>
              /\ (c.verb = "Post" /\ c.in.form.set /\ c.in.json.set /\ ~c.in.data.set
                    /\ c.req.kind = "Request") =>
                   /\ c.req.body.kind = "reader"
                   /\ c.req.body.bytes = Encode(c.in.form.v)
                   /\ ContentTypeKey \in DOMAIN c.req.header
                   /\ c.req.header[ContentTypeKey] = FormContentType

\* The copy at lines 22-253 alone picks the encoder in priority order.
CurrentPriorityOrder ==
    \A p \in Procs :
        LET c == call[p]
        IN  (Encoded(c) /\ c.verb \in BodyVerbs /\ c.impl = "current"
               /\ Cardinality(SetFields(c.in)) >= 2) =>
              c.encoders = <<TopField(c.in)>>

\* C4: Post, Put, Patch and Delete all look at data, form, json and files:
\* with files alone set each sends a multipart body, and none sends a
\* body-less request while a payload field is set.
C4_AllVerbsSeeFiles ==
    \A p \in Procs :
        LET c == call[p]
        IN  (Encoded(c) /\ c.verb \in BodyVerbs) =>
              /\ SetFields(c.in) = {"files"} => c.encoders = <<"files">>
              /\ (c.req.kind = "Request" /\ SetFields(c.in) = {"files"}) =>
                    c.req.body.kind = "multipart"
              /\ (c.req.kind = "Request" /\ SetFields(c.in) # {}) =>
                    c.req.body.kind # "nil"

\* C5: a Get call runs no encoder whatever payload fields are set: nothing
\* is written to the headers map, the outbound request has no body, and its
\* Content-Type, if any, is one the caller's own headers held.
C5_GetNeverEncodes ==
    \A p \in Procs :
        LET c == call[p]
        IN  (c.pc # "idle" /\ c.verb = "Get") =>
              /\ c.encoders = <<>> /\ c.via = "none" /\ c.body.kind = "nil"
              /\ HeadersOf(c, callerMap) = c.snap
              /\ c.req.kind = "Request" =>
                   /\ c.req.body.kind = "nil"
                   /\ c.req.method = "GET"
                   /\ ContentTypeKey \in DOMAIN c.req.header =>
                        \E k \in DOMAIN c.snap :
                            /\ CanonicalMIMEHeaderKey(k) = ContentTypeKey
                            /\ c.snap[k] = c.req.header[ContentTypeKey]

\* A Get call with data, form, json and files all set was submitted.
C5_Witness ==
    \E p \in Procs :
        /\ call[p].verb = "Get" /\ call[p].pc = "done" /\ call[p].submitted = 1
        /\ SetFields(call[p].in) = PayloadFields
        /\ call[p].impl = "current" /\ call[p].err.kind = "nil"

\* The Content-Type of the encoder that ran for call c.
EncoderContentType(c) ==
    CASE c.via = "requestForm" -> FormContentType
      [] c.via = "requestJSON" -> JSONContentType
      [] c.via = "requestFiles" -> FormDataContentType(c.mpw.boundary)

\* C6: after the form, json or files encoder, the outbound Content-Type is
\* the encoder's own, whatever Content-Type the caller put in Headers and in
\* whatever letter case, and whatever the order the map is visited in.
C6_EncoderContentTypeWins ==
    \A p \in Procs :
        LET c == call[p]
        IN  (c.req.kind = "Request"
               /\ c.via \in {"requestForm", "requestJSON", "requestFiles"}) =>
              /\ ContentTypeKey \in DOMAIN c.req.header
              /\ c.req.header[ContentTypeKey] = EncoderContentType(c)

\* The Authorization value RFC 7617 gives for the credentials of the model.
ExpectedAuthorization(auth) ==
    IF auth = AliceAuth THEN "Basic YWxpY2U6c2VjcmV0" ELSE "Basic YTpi"

\* C7: with basic auth the outbound Authorization header is "Basic " and
\* base64(username:password), also when Headers held an Authorization entry:
\* for ("alice", "secret") it is Basic YWxpY2U6c2VjcmV0.
C7_BasicAuthLast ==
    \A p \in Procs :
        LET c == call[p]
        IN  (c.req.kind = "Request" /\ c.in.auth.authType = "HTTPBasicAuth") =>
              /\ AuthorizationKey \in DOMAIN c.req.header
              /\ c.req.header[AuthorizationKey] = ExpectedAuthorization(c.in.auth)

\* A request with basic auth was submitted although the caller's Headers
\* held an authorization entry of its own.
C7_Witness ==
    \E p \in Procs :
        /\ call[p].req.kind = "Request" /\ call[p].in.auth = AliceAuth
        /\ call[p].in.hdr = "caller"
        /\ LowerAuthorizationKey \in DOMAIN call[p].snap
        /\ call[p].submitted = 1

\* C8: a JSON marshal failure, a failure creating or copying a multipart
\* part or a failure of Close ends the call with a nil response, a non-nil
\* error and nothing submitted; a multipart request that is submitted holds
\* every part of the files mapping, complete, and the terminating boundary.
C8_EncodeBeforeSend ==
    \A p \in Procs :
        LET c == call[p]
        IN  /\ c.err.kind = "encoding" =>
                 /\ c.pc = "done" /\ c.rsp.kind = "nil"
                 /\ c.submitted = 0 /\ c.req.kind = "nil"
            /\ (c.via = "requestJSON" /\ c.in.json.v.t = "chan") =>
                 c.pc = "done" /\ c.err.kind = "encoding"
            /\ (c.mpw.kind = "writer" /\ \E i \in DOMAIN c.mpw.parts : ~c.mpw.parts[i].complete) =>
                 c.pc = "done" /\ c.err.kind = "encoding"
            /\ (c.submitted > 0 /\ c.req.body.kind = "multipart") =>
                 LET b == c.req.body
                 IN  /\ b.closed
                     /\ Len(b.parts) = Cardinality(DOMAIN c.in.files.v)
                     /\ {b.parts[i].field : i \in DOMAIN b.parts} = DOMAIN c.in.files.v
                     /\ \A i \in DOMAIN b.parts :
                          /\ b.parts[i].complete
                          /\ b.parts[i].filename = c.in.files.v[b.parts[i].field].name
                          /\ b.parts[i].content = c.in.files.v[b.parts[i].field].content

\* A multipart request with two parts was submitted.
C8_Witness ==
    \E p \in Procs :
        /\ call[p].submitted = 1 /\ call[p].req.body.kind = "multipart"
        /\ Len(call[p].req.body.parts) = 2

\* C9: no call returns (nil, nil); a transport, configuration or encoding
\* failure returns a nil response with a non-nil error; the response is
\* non-nil exactly when the transport returned a raw response; the round trip
\* is attempted at most once.
C9_ReturnPairs ==
    \A p \in Procs :
        LET c == call[p]
        IN  /\ c.submitted <= 1
            /\ c.pc = "done" =>
                 /\ ~(c.rsp.kind = "nil" /\ c.err.kind = "nil")
                 /\ c.err.kind \in {"transport", "config", "encoding"} => c.rsp.kind = "nil"
                 /\ c.rsp.kind # "nil" <=> c.raw.kind = "resp"

\* The copy at lines 22-253 alone meets C9.
CurrentReturnPairs ==
    \A p \in Procs :
        LET c == call[p]
        IN  /\ c.submitted <= 1
            /\ (c.pc = "done" /\ c.impl = "current") =>
                 /\ ~(c.rsp.kind = "nil" /\ c.err.kind = "nil")
                 /\ c.err.kind \in {"transport", "config", "encoding"} => c.rsp.kind = "nil"
                 /\ c.rsp.kind # "nil" <=> c.raw.kind = "resp"

\* C10: once a call's Option Set is assembled, the headers mapping it refers
\* to is written by no step of any call, the call's own or a concurrent one
\* that was given the same map: it keeps the contents it had at assembly.
C10_OptionSetReadOnly ==
    \A p \in Procs :
        call[p].pc # "idle" => HeadersOf(call[p], callerMap) = call[p].snap

====
